---- MODULE Spec2Model ----
(***************************************************************************)
(* Runway selector: wind parsing, wind components, the per-airport         *)
(* selection policy, the active-runway store files and one pass of main(). *)
(* Text (designators, airport ids, reports, file contents, messages) is    *)
(* modelled as sequences of one-character strings so that startswith,      *)
(* substring tests, rstrip, int() and line splitting are computed as the   *)
(* code computes them.  Wind components are fixed-point numbers in units   *)
(* of 1/Scale knots.                                                       *)
(***************************************************************************)
EXTENDS Integers, Sequences, FiniteSets, TLC

VARIABLES
  runways,      \* main: the parsed catalog, a list of <<airport, runway list>> in file order
  feed,         \* the two responses of the wind feed (batch, ESKS)
  all_metars,   \* main: result of get_all_metars, a list of <<icao, wind_data>> (dict, insertion order)
  files,        \* the .rwy files of the directory: a list of file contents
  pc,           \* position of the running program
  idx,          \* main: index of the airport being processed
  pending,      \* main: wind_data of the airport waiting at the operator prompt
  invalid,      \* get_engm_config: invalid answers given so far at the current prompt
  log,          \* history: per processed airport what the pass did
  sel_in,       \* select_runway under test: its arguments
  sel_out,      \* select_runway under test: its result
  last,         \* store under test: history of the last committed update per key
  fp            \* floating point: the rounding error of the components, per runway heading

vars == << runways, feed, all_metars, files, pc, idx, pending, invalid, log, sel_in, sel_out, last, fp >>

----------------------------------------------------------------------------
(* Text primitives *)

Digits == << "0", "1", "2", "3", "4", "5", "6", "7", "8", "9" >>

IsDigit(c) == \E k \in 1..10 : Digits[k] = c

DigitVal(c) == (CHOOSE k \in 1..10 : Digits[k] = c) - 1

IsSpace(c) == c \in { " ", "\n", "\t", "\r" }

StartsWith(s, p) == Len(s) >= Len(p) /\ SubSeq(s, 1, Len(p)) = p

Contains(s, p) == \E k \in 1..(Len(s) - Len(p) + 1) : SubSeq(s, k, k + Len(p) - 1) = p

RECURSIVE RStrip(_, _)
RStrip(s, chars) ==
  IF s # << >> /\ s[Len(s)] \in chars THEN RStrip(SubSeq(s, 1, Len(s) - 1), chars) ELSE s

RECURSIVE LStrip(_, _)
LStrip(s, chars) ==
  IF s # << >> /\ s[1] \in chars THEN LStrip(Tail(s), chars) ELSE s

Strip(s) == LStrip(RStrip(s, { " ", "\n", "\t", "\r" }), { " ", "\n", "\t", "\r" })

\* int(s) for a string of decimal digits
RECURSIVE ParseInt(_)
ParseInt(s) ==
  IF s = << >> THEN 0 ELSE 10 * ParseInt(SubSeq(s, 1, Len(s) - 1)) + DigitVal(s[Len(s)])

\* str(n) for n >= 0
RECURSIVE IntToStr(_)
IntToStr(n) ==
  IF n < 10 THEN << Digits[n + 1] >> ELSE IntToStr(n \div 10) \o << Digits[(n % 10) + 1] >>

RECURSIVE Concat(_)
Concat(ss) == IF ss = << >> THEN << >> ELSE Head(ss) \o Concat(Tail(ss))

\* sep.join(ss)
RECURSIVE Join(_, _)
Join(sep, ss) ==
  IF ss = << >> THEN << >>
  ELSE IF Len(ss) = 1 THEN ss[1]
  ELSE ss[1] \o sep \o Join(sep, Tail(ss))

\* s.split(sep) for a one-character separator
RECURSIVE SplitOn(_, _)
SplitOn(s, sep) ==
  IF \A k \in 1..Len(s) : s[k] # sep THEN << s >>
  ELSE LET k == CHOOSE j \in 1..Len(s) : s[j] = sep /\ \A m \in 1..(j - 1) : s[m] # sep
       IN  << SubSeq(s, 1, k - 1) >> \o SplitOn(SubSeq(s, k + 1, Len(s)), sep)

\* s.split(): whitespace-separated tokens, no empty tokens
RECURSIVE SplitWs(_)
SplitWs(s) ==
  LET t == LStrip(s, { " ", "\n", "\t", "\r" })
  IN  IF t = << >> THEN << >>
      ELSE IF \A k \in 1..Len(t) : ~IsSpace(t[k]) THEN << t >>
      ELSE LET k == CHOOSE j \in 1..Len(t) : IsSpace(t[j]) /\ \A m \in 1..(j - 1) : ~IsSpace(t[m])
           IN  << SubSeq(t, 1, k - 1) >> \o SplitWs(SubSeq(t, k + 1, Len(t)))

\* f.readlines(): the lines of a text, each keeping its trailing newline
RECURSIVE ReadLines(_)
ReadLines(s) ==
  IF s = << >> THEN << >>
  ELSE IF \A k \in 1..Len(s) : s[k] # "\n" THEN << s >>
  ELSE LET k == CHOOSE j \in 1..Len(s) : s[j] = "\n" /\ \A m \in 1..(j - 1) : s[m] # "\n"
       IN  << SubSeq(s, 1, k) >> \o ReadLines(SubSeq(s, k + 1, Len(s)))

----------------------------------------------------------------------------
(* Fixed text of the program *)

ENGM == << "E", "N", "G", "M" >>
ENZV == << "E", "N", "Z", "V" >>
ESKS == << "E", "S", "K", "S" >>
VRB == << "V", "R", "B" >>
KT == << "K", "T" >>
FZFG == << "F", "Z", "F", "G" >>
MPO == << "M", "P", "O" >>
SPO == << "S", "P", "O" >>
SRO == << "S", "R", "O" >>
Segregated == << "S", "e", "g", "r", "e", "g", "a", "t", "e", "d" >>
ACTIVE_RUNWAY == << "A", "C", "T", "I", "V", "E", "_", "R", "U", "N", "W", "A", "Y" >>
ENGM_ARR == << "E", "N", "G", "M", "_", "A", "R", "R" >>
ENGM_DEP == << "E", "N", "G", "M", "_", "D", "E", "P" >>
NL == << "\n" >>
Colon == << ":" >>

PREFERRED_RUNWAYS ==
  << << << "E", "N", "B", "R" >>, << "1", "7" >> >>,
     << << "E", "N", "T", "O" >>, << "1", "8" >> >>,
     << << "E", "N", "R", "Y" >>, << "3", "0" >> >>,
     << << "E", "N", "Z", "V" >>, << "1", "8" >> >>,
     << << "E", "N", "H", "D" >>, << "1", "3" >> >>,
     << << "E", "N", "A", "L" >>, << "2", "4" >> >>,
     << << "E", "N", "M", "L" >>, << "0", "7" >> >>,
     << << "E", "N", "K", "B" >>, << "0", "7" >> >>,
     << << "E", "N", "V", "A" >>, << "0", "9" >> >>,
     << << "E", "N", "B", "O" >>, << "0", "7" >> >>,
     << << "E", "N", "T", "C" >>, << "1", "8" >> >>,
     << << "E", "N", "C", "N" >>, << "2", "1" >> >>,
     << << "E", "N", "R", "O" >>, << "3", "1" >> >>,
     << << "E", "N", "S", "G" >>, << "2", "4" >> >>,
     << << "E", "N", "F", "L" >>, << "0", "7" >> >>,
     << << "E", "N", "E", "V" >>, << "1", "7" >> >>,
     << << "E", "N", "D", "U" >>, << "2", "8" >> >>,
     << << "E", "N", "A", "T" >>, << "1", "1" >> >>,
     << << "E", "N", "N", "A" >>, << "3", "4" >> >>,
     << << "E", "N", "K", "R" >>, << "2", "4" >> >>,
     << << "E", "N", "S", "B" >>, << "0", "9" >> >>,
     << << "E", "N", "N", "O" >>, << "1", "2" >> >>,
     << << "E", "N", "S", "D" >>, << "2", "6" >> >>,
     << << "E", "N", "S", "O" >>, << "1", "4" >> >>,
     << << "E", "N", "M", "S" >>, << "3", "3" >> >>,
     << << "E", "N", "B", "N" >>, << "0", "3" >> >>,
     << << "E", "N", "S", "T" >>, << "2", "0" >> >>,
     << << "E", "N", "R", "A" >>, << "3", "1" >> >>,
     << << "E", "N", "L", "K" >>, << "0", "2" >> >>,
     << << "E", "N", "S", "H" >>, << "3", "6" >> >>,
     << << "E", "N", "A", "N" >>, << "1", "4" >> >>,
     << << "E", "N", "O", "L" >>, << "1", "5" >> >> >>
IGNORED_AIRPORTS ==
  { << "E", "N", "R", "E" >>,
    << "E", "N", "G", "K" >>,
    << "E", "N", "L", "I" >>,
    << "E", "N", "K", "J" >>,
    << "E", "N", "H", "A" >>,
    << "E", "N", "E", "G" >>,
    << "E", "N", "J", "A" >>,
    << "E", "N", "B", "M" >>,
    << "E", "N", "A", "X" >> }

InPreferred(airport) == \E k \in 1..Len(PREFERRED_RUNWAYS) : PREFERRED_RUNWAYS[k][1] = airport

Preferred(airport) ==
  PREFERRED_RUNWAYS[CHOOSE k \in 1..Len(PREFERRED_RUNWAYS) : PREFERRED_RUNWAYS[k][1] = airport][2]

----------------------------------------------------------------------------
(* parse_metar *)

None == [kind |-> "None", direction |-> 0, speed |-> 0, raw_metar |-> << >>]

AllDigits(s, a, b) == b <= Len(s) /\ \A k \in a..b : IsDigit(s[k])

\* length of the speed group when (VRB|(\d{3}))(\d{2,3})KT matches at position k, else 0;
\* \d{2,3} is greedy: three digits are tried before two
WindMatchAt(s, k) ==
  IF k + 2 <= Len(s) /\ (SubSeq(s, k, k + 2) = VRB \/ AllDigits(s, k, k + 2))
  THEN IF AllDigits(s, k + 3, k + 5) /\ k + 7 <= Len(s) /\ SubSeq(s, k + 6, k + 7) = KT THEN 3
       ELSE IF AllDigits(s, k + 3, k + 4) /\ k + 6 <= Len(s) /\ SubSeq(s, k + 5, k + 6) = KT THEN 2
       ELSE 0
  ELSE 0

parse_metar(metar) ==
  IF metar = << >> THEN None
  ELSE IF \A k \in 1..Len(metar) : WindMatchAt(metar, k) = 0 THEN None
  ELSE LET k == CHOOSE j \in 1..Len(metar) :
                  WindMatchAt(metar, j) # 0 /\ \A m \in 1..(j - 1) : WindMatchAt(metar, m) = 0
           n == WindMatchAt(metar, k)
           group1 == SubSeq(metar, k, k + 2)
           speed == ParseInt(SubSeq(metar, k + 3, k + 2 + n))
       IN  IF group1 = VRB
           THEN [kind |-> "VRB", direction |-> 0, speed |-> speed, raw_metar |-> metar]
           ELSE [kind |-> "int", direction |-> ParseInt(group1), speed |-> speed, raw_metar |-> metar]

----------------------------------------------------------------------------
(* calculate_wind_components, in fixed point: 1 knot = Scale units.        *)
(* The code computes in binary floating point: two components that are    *)
(* equal in exact arithmetic (the crosswinds of two reciprocal headings,  *)
(* the headwinds of a runway under a perpendicular wind) come out equal   *)
(* or apart by rounding, in an order the platform's sin and cos decide.   *)
(* fp gives each heading a rounding error of 0 or 1 unit; components that *)
(* differ in exact arithmetic differ by far more than one unit.  A wind   *)
(* of speed 0 gives exact zeros.                                          *)

Scale == 1000000

\* round(Scale * sin(d degrees)) for d = 0..90
SinTable ==
   << 0, 17452, 34899, 52336, 69756, 87156, 104528, 121869, 139173, 156434,
      173648, 190809, 207912, 224951, 241922, 258819, 275637, 292372, 309017, 325568,
      342020, 358368, 374607, 390731, 406737, 422618, 438371, 453990, 469472, 484810,
      500000, 515038, 529919, 544639, 559193, 573576, 587785, 601815, 615661, 629320,
      642788, 656059, 669131, 681998, 694658, 707107, 719340, 731354, 743145, 754710,
      766044, 777146, 788011, 798636, 809017, 819152, 829038, 838671, 848048, 857167,
      866025, 874620, 882948, 891007, 898794, 906308, 913545, 920505, 927184, 933580,
      939693, 945519, 951057, 956305, 961262, 965926, 970296, 974370, 978148, 981627,
      984808, 987688, 990268, 992546, 994522, 996195, 997564, 998630, 999391, 999848,
      1000000 >>

SinDeg(d) ==
  LET m == d % 360
  IN  IF m <= 90 THEN SinTable[m + 1]
      ELSE IF m <= 180 THEN SinTable[(180 - m) + 1]
      ELSE IF m <= 270 THEN -SinTable[(m - 180) + 1]
      ELSE -SinTable[(360 - m) + 1]

CosDeg(d) == SinDeg(d + 90)

Abs(x) == IF x < 0 THEN -x ELSE x

Min2(a, b) == IF b < a THEN b ELSE a

NoRounding == << >>

RoundingError(runway_hdg, wind_speed) ==
  IF wind_speed # 0 /\ runway_hdg \in DOMAIN fp THEN fp[runway_hdg] ELSE 0

calculate_wind_components(runway_hdg, wind_dir, wind_speed) ==
  LET headwind == wind_speed * CosDeg(wind_dir - runway_hdg) + RoundingError(runway_hdg, wind_speed)
      crosswind == wind_speed * SinDeg(wind_dir - runway_hdg)
  IN  << headwind, Abs(crosswind) + RoundingError(runway_hdg, wind_speed) >>

----------------------------------------------------------------------------
(* select_runway_enzv *)

select_runway_enzv(wind_data) ==
  IF wind_data = None THEN << "1", "8" >>
  ELSE LET rwy18 == calculate_wind_components(177, wind_data.direction, wind_data.speed)
           rwy36 == calculate_wind_components(357, wind_data.direction, wind_data.speed)
           rwy10 == calculate_wind_components(100, wind_data.direction, wind_data.speed)
           rwy28 == calculate_wind_components(280, wind_data.direction, wind_data.speed)
           best_18_36 == IF rwy18[1] > rwy36[1] THEN << "1", "8" >> ELSE << "3", "6" >>
           best_18_36_xw == IF best_18_36 = << "1", "8" >> THEN rwy18[2] ELSE rwy36[2]
       IN  IF best_18_36_xw > 15 * Scale
           THEN IF rwy10[1] > rwy28[1] THEN << "1", "0" >> ELSE << "2", "8" >>
           ELSE best_18_36

----------------------------------------------------------------------------
(* get_engm_config: the configuration returned for an accepted answer *)

ValidChoices == { "1", "2", "3", "4", "5", "6" }

get_engm_config(choice) ==
  IF choice = "1" THEN << << << "1", "9", "L" >>, << "1", "9", "R" >> >>, MPO >>
  ELSE IF choice = "2" THEN << << << "0", "1", "L" >>, << "0", "1", "R" >> >>, MPO >>
  ELSE IF choice = "3" THEN << << << "1", "9", "L" >>, << "1", "9", "R" >> >>, SPO >>
  ELSE IF choice = "4" THEN << << << "0", "1", "L" >>, << "0", "1", "R" >> >>, SPO >>
  ELSE IF choice = "5" THEN << << << "1", "9", "R" >> >>, SRO >>
  ELSE << << << "0", "1", "L" >> >>, SRO >>

----------------------------------------------------------------------------
(* select_runway *)

MsgNoWindPreferred == << "N", "o", " ", "w", "i", "n", "d", " ", "d", "a", "t", "a", " ", "a", "v", "a", "i", "l", "a", "b", "l", "e", " ", "-", " ", "u", "s", "i", "n", "g", " ", "p", "r", "e", "f", "e", "r", "r", "e", "d", " ", "r", "u", "n", "w", "a", "y", " " >>
MsgNoWindDefault == << "N", "o", " ", "w", "i", "n", "d", " ", "d", "a", "t", "a", " ", "a", "v", "a", "i", "l", "a", "b", "l", "e", " ", "-", " ", "d", "e", "f", "a", "u", "l", "t", "i", "n", "g", " ", "t", "o", " ", "r", "u", "n", "w", "a", "y", " " >>
MsgUsing == << "U", "s", "i", "n", "g", " " >>
MsgModeWithRunways == << " ", "m", "o", "d", "e", " ", "w", "i", "t", "h", " ", "r", "u", "n", "w", "a", "y", "s", " " >>
CommaSpace == << ",", " " >>
MsgWindIs == << "W", "i", "n", "d", " ", "i", "s", " " >>
MsgUsingPreferred == << ",", " ", "u", "s", "i", "n", "g", " ", "p", "r", "e", "f", "e", "r", "r", "e", "d", " ", "r", "u", "n", "w", "a", "y", " " >>
MsgNoPreferred == << ",", " ", "n", "o", " ", "p", "r", "e", "f", "e", "r", "r", "e", "d", " ", "r", "u", "n", "w", "a", "y", " ", "-", " ", "u", "s", "i", "n", "g", " ", "r", "u", "n", "w", "a", "y", " " >>
MsgSelected == << "S", "e", "l", "e", "c", "t", "e", "d", " ", "r", "u", "n", "w", "a", "y", " " >>
MsgBasedOnWind == << " ", "b", "a", "s", "e", "d", " ", "o", "n", " ", "w", "i", "n", "d", " " >>
AtSign == << "@" >>

max_crosswind == 25

RwyNum(d) == ParseInt(RStrip(d, { "L", "R", "C" }))

\* AsksOperator without the freezing-fog test
AsksOperatorVrbOnly(airport, wind_data) ==
  /\ wind_data # None
  /\ airport = ENGM
  /\ wind_data.kind = "VRB"

\* the branch of select_runway that asks the operator
AsksOperator(airport, wind_data) ==
  /\ wind_data # None
  /\ airport = ENGM
  /\ (wind_data.kind = "VRB" \/ Contains(wind_data.raw_metar, FZFG))

RECURSIVE MinOfSeq(_)
MinOfSeq(ns) == IF Len(ns) = 1 THEN ns[1] ELSE Min2(ns[1], MinOfSeq(Tail(ns)))

\* lines 261-266: the designator the loop leaves in `selected`
RECURSIVE LowestLoop(_, _, _)
LowestLoop(runway_data, lowest_rwy, selected) ==
  IF runway_data = << >> THEN selected
  ELSE LET runway == Head(runway_data)
           s == IF RwyNum(runway.rwy1) = lowest_rwy THEN runway.rwy1
                ELSE IF RwyNum(runway.rwy2) = lowest_rwy THEN runway.rwy2
                ELSE selected
       IN  LowestLoop(Tail(runway_data), lowest_rwy, s)

\* LowestRunway that looks at the first designator of each runway only
LowestRunwayFirstOnly(runway_data) ==
  LET lowest_rwy == MinOfSeq([k \in 1..Len(runway_data) |-> RwyNum(runway_data[k].rwy1)])
  IN  LowestLoop(runway_data, lowest_rwy, << >>)

LowestRunway(runway_data) ==
  LET lowest_rwy == MinOfSeq([k \in 1..Len(runway_data) |->
                        Min2(RwyNum(runway_data[k].rwy1), RwyNum(runway_data[k].rwy2))])
  IN  LowestLoop(runway_data, lowest_rwy, << >>)

\* BestLoop where a later heading of equal headwind replaces the best one
RECURSIVE BestLoopLaterWins(_, _, _)
BestLoopLaterWins(runway_data, wind_data, best) ==
  IF runway_data = << >> THEN best
  ELSE LET runway == Head(runway_data)
           hdg1 == calculate_wind_components(runway.hdg1, wind_data.direction, wind_data.speed)
           hdg2 == calculate_wind_components(runway.hdg2, wind_data.direction, wind_data.speed)
           b == IF Min2(hdg1[2], hdg2[2]) > max_crosswind * Scale THEN best
                ELSE IF hdg1[1] > hdg2[1]
                THEN IF (best.inf \/ hdg1[1] >= best.hw) /\ hdg1[2] <= max_crosswind * Scale
                     THEN [rwy |-> runway.rwy1, hw |-> hdg1[1], inf |-> FALSE]
                     ELSE best
                ELSE IF (best.inf \/ hdg2[1] >= best.hw) /\ hdg2[2] <= max_crosswind * Scale
                     THEN [rwy |-> runway.rwy2, hw |-> hdg2[1], inf |-> FALSE]
                     ELSE best
       IN  BestLoopLaterWins(Tail(runway_data), wind_data, b)

\* lines 276-293; best = [rwy, hw, inf]: best_runway (<< >> is None),
\* best_headwind, and whether best_headwind is still float('-inf')
RECURSIVE BestLoop(_, _, _)
BestLoop(runway_data, wind_data, best) ==
  IF runway_data = << >> THEN best
  ELSE LET runway == Head(runway_data)
           hdg1 == calculate_wind_components(runway.hdg1, wind_data.direction, wind_data.speed)
           hdg2 == calculate_wind_components(runway.hdg2, wind_data.direction, wind_data.speed)
           b == IF Min2(hdg1[2], hdg2[2]) > max_crosswind * Scale THEN best
                ELSE IF hdg1[1] > hdg2[1]
                THEN IF (best.inf \/ hdg1[1] > best.hw) /\ hdg1[2] <= max_crosswind * Scale
                     THEN [rwy |-> runway.rwy1, hw |-> hdg1[1], inf |-> FALSE]
                     ELSE best
                ELSE IF (best.inf \/ hdg2[1] > best.hw) /\ hdg2[2] <= max_crosswind * Scale
                     THEN [rwy |-> runway.rwy2, hw |-> hdg2[1], inf |-> FALSE]
                     ELSE best
       IN  BestLoop(Tail(runway_data), wind_data, b)

\* LeastLoop with the two comparisons turned around
RECURSIVE LeastLoopGreatest(_, _, _)
LeastLoopGreatest(runway_data, wind_data, least) ==
  IF runway_data = << >> THEN least
  ELSE LET runway == Head(runway_data)
           hdg1_xw == calculate_wind_components(runway.hdg1, wind_data.direction, wind_data.speed)[2]
           hdg2_xw == calculate_wind_components(runway.hdg2, wind_data.direction, wind_data.speed)[2]
           l1 == IF least.inf \/ hdg1_xw > least.xw
                 THEN [rwy |-> runway.rwy1, xw |-> hdg1_xw, inf |-> FALSE] ELSE least
           l2 == IF l1.inf \/ hdg2_xw > l1.xw
                 THEN [rwy |-> runway.rwy2, xw |-> hdg2_xw, inf |-> FALSE] ELSE l1
       IN  LeastLoopGreatest(Tail(runway_data), wind_data, l2)

\* lines 297-307; least = [rwy, xw, inf]: best_runway, min_crosswind,
\* and whether min_crosswind is still float('inf')
RECURSIVE LeastLoop(_, _, _)
LeastLoop(runway_data, wind_data, least) ==
  IF runway_data = << >> THEN least
  ELSE LET runway == Head(runway_data)
           hdg1_xw == calculate_wind_components(runway.hdg1, wind_data.direction, wind_data.speed)[2]
           hdg2_xw == calculate_wind_components(runway.hdg2, wind_data.direction, wind_data.speed)[2]
           l1 == IF least.inf \/ hdg1_xw < least.xw
                 THEN [rwy |-> runway.rwy1, xw |-> hdg1_xw, inf |-> FALSE] ELSE least
           l2 == IF l1.inf \/ hdg2_xw < l1.xw
                 THEN [rwy |-> runway.rwy2, xw |-> hdg2_xw, inf |-> FALSE] ELSE l1
       IN  LeastLoop(Tail(runway_data), wind_data, l2)

Selection(selected, is_list, message, should_print) ==
  [selected |-> selected, is_list |-> is_list, message |-> message, should_print |-> should_print]

\* sel_out before the call, and the selection of a log entry that made none
NoSelection == Selection(<< >>, FALSE, << >>, FALSE)

\* choice: the answer get_engm_config accepts, read only when the operator is asked
select_runway(airport, runway_data, wind_data, choice) ==
  IF wind_data = None
  THEN IF InPreferred(airport)
       THEN Selection(Preferred(airport), FALSE, MsgNoWindPreferred \o Preferred(airport), TRUE)
       ELSE Selection(runway_data[1].rwy1, FALSE, MsgNoWindDefault \o runway_data[1].rwy1, TRUE)
  ELSE IF AsksOperator(airport, wind_data)
  THEN LET cfg == get_engm_config(choice)
       IN  Selection(cfg[1], TRUE,
                     MsgUsing \o cfg[2] \o MsgModeWithRunways \o Join(CommaSpace, cfg[1]), TRUE)
  ELSE IF wind_data.kind = "VRB"
  THEN IF InPreferred(airport)
       THEN Selection(Preferred(airport), FALSE,
                      MsgWindIs \o wind_data.raw_metar \o MsgUsingPreferred \o Preferred(airport), TRUE)
       ELSE LET selected == LowestRunway(runway_data)
            IN  Selection(selected, FALSE,
                          MsgWindIs \o wind_data.raw_metar \o MsgNoPreferred \o selected, TRUE)
  ELSE LET best == BestLoop(runway_data, wind_data, [rwy |-> << >>, hw |-> 0, inf |-> TRUE])
           fallback == best.rwy = << >>
           best_runway == IF fallback
                          THEN LeastLoop(runway_data, wind_data,
                                         [rwy |-> << >>, xw |-> 0, inf |-> TRUE]).rwy
                          ELSE best.rwy
       IN  Selection(best_runway, FALSE,
                     MsgSelected \o best_runway \o MsgBasedOnWind \o IntToStr(wind_data.direction)
                       \o AtSign \o IntToStr(wind_data.speed) \o KT,
                     fallback)

----------------------------------------------------------------------------
(* The store files: update_rwy_file and update_engm_runways, on a file's text *)

update_rwy_file(content, airport, runway) ==
  LET lines == ReadLines(content)
      prefix == ACTIVE_RUNWAY \o Colon \o airport \o Colon
      new_lines == SelectSeq(lines, LAMBDA line : ~StartsWith(line, prefix))
  IN  Concat(new_lines)
        \o prefix \o runway \o Colon \o << "1" >> \o NL
        \o prefix \o runway \o Colon \o << "0" >> \o NL

\* lines 199-205: the index the loop leaves, 0 for None
LastIndex(hits) ==
  IF \E k \in 1..Len(hits) : hits[k]
  THEN CHOOSE k \in 1..Len(hits) : hits[k] /\ \A m \in (k + 1)..Len(hits) : ~hits[m]
  ELSE 0

update_engm_runways(content, rwys, mode) ==
  LET lines == ReadLines(content)
      IsArr(line) == StartsWith(line, ENGM_ARR)
      IsDep(line) == ~StartsWith(line, ENGM_ARR) /\ StartsWith(line, ENGM_DEP)
      arr_line_idx == LastIndex([k \in 1..Len(lines) |-> IsArr(lines[k])])
      dep_line_idx == LastIndex([k \in 1..Len(lines) |-> IsDep(lines[k])])
      arr == IF mode = SPO
             THEN IF Contains(rwys[1], << "1", "9" >>) THEN << "1", "9", "R" >> ELSE << "0", "1", "R" >>
             ELSE IF mode = MPO THEN rwys[1] \o << "," >> \o rwys[2]
             ELSE rwys[1]
      dep == IF mode = SPO
             THEN IF Contains(rwys[1], << "1", "9" >>) THEN << "1", "9", "L" >> ELSE << "0", "1", "L" >>
             ELSE IF mode = MPO THEN rwys[1] \o << "," >> \o rwys[2]
             ELSE rwys[1]
  IN  IF arr_line_idx # 0 /\ dep_line_idx # 0
      THEN Concat([k \in 1..Len(lines) |->
                     IF k = arr_line_idx THEN ENGM_ARR \o Colon \o arr \o NL
                     ELSE IF k = dep_line_idx THEN ENGM_DEP \o Colon \o dep \o NL
                     ELSE lines[k]])
      ELSE content

\* main, line 366: the mode main hands to update_engm_runways
ModeFromMessage(message) ==
  IF Contains(message, Segregated) THEN SPO
  ELSE IF Contains(message, MPO) THEN MPO
  ELSE SRO

\* main, lines 363-369: one store file after the selection is committed to it
Commit(content, airport, s) ==
  IF airport = ENGM /\ s.is_list
  THEN update_engm_runways(content, s.selected, ModeFromMessage(s.message))
  ELSE update_rwy_file(content, airport, s.selected)

----------------------------------------------------------------------------
(* get_all_metars *)

\* a response of requests.get: it raises, or carries a status code and a text
Response(raises, status_code, text) ==
  [raises |-> raises, status_code |-> status_code, text |-> text]

NoMetars == << >>

\* metars[icao] = wind_data
Put(metars, icao, wind_data) ==
  [k \in (DOMAIN metars) \cup { icao } |-> IF k = icao THEN wind_data ELSE metars[k]]

\* all_metars.get(airport)
Get(metars, airport) == IF airport \in DOMAIN metars THEN metars[airport] ELSE None

\* lines 72-76; raised: metar.split()[0] found no token (IndexError)
RECURSIVE MetarLoop(_, _)
MetarLoop(norwegian_metars, metars) ==
  IF norwegian_metars = << >> THEN [metars |-> metars, raised |-> FALSE]
  ELSE LET metar == Head(norwegian_metars)
           tokens == SplitWs(metar)
       IN  IF tokens = << >> THEN [metars |-> metars, raised |-> TRUE]
           ELSE LET icao == tokens[1]
                    wind_data == parse_metar(metar)
                IN  MetarLoop(Tail(norwegian_metars),
                              IF wind_data # None THEN Put(metars, icao, wind_data) ELSE metars)

get_all_metars(f) ==
  IF f.batch.raises THEN NoMetars
  ELSE LET r == IF f.batch.status_code = 200
                THEN MetarLoop(SplitOn(Strip(f.batch.text), "\n"), NoMetars)
                ELSE [metars |-> NoMetars, raised |-> FALSE]
       IN  IF r.raised \/ f.esks.raises THEN r.metars
           ELSE IF f.esks.status_code = 200
           THEN LET wind_data == parse_metar(Strip(f.esks.text))
                IN  IF wind_data # None THEN Put(r.metars, ESKS, wind_data) ELSE r.metars
           ELSE r.metars

----------------------------------------------------------------------------
(* The inputs of a pass *)

Runway(rwy1, rwy2, hdg1, hdg2, airport) ==
  [rwy1 |-> rwy1, rwy2 |-> rwy2, hdg1 |-> hdg1, hdg2 |-> hdg2, airport |-> airport]

ENBR == << "E", "N", "B", "R" >>
ENRE == << "E", "N", "R", "E" >>

\* parse_runways: the catalog, airport by airport in order of first appearance
CatalogEntry(airport) ==
  IF airport = ENGM
  THEN << ENGM, << Runway(<< "0", "1", "L" >>, << "1", "9", "R" >>, 14, 194, ENGM),
                   Runway(<< "0", "1", "R" >>, << "1", "9", "L" >>, 14, 194, ENGM) >> >>
  ELSE IF airport = ENZV
  THEN << ENZV, << Runway(<< "1", "8" >>, << "3", "6" >>, 177, 357, ENZV),
                   Runway(<< "1", "0" >>, << "2", "8" >>, 100, 280, ENZV) >> >>
  ELSE IF airport = ENBR
  THEN << ENBR, << Runway(<< "1", "7" >>, << "3", "5" >>, 170, 350, ENBR) >> >>
  ELSE IF airport = ENRE
  THEN << ENRE, << Runway(<< "0", "7" >>, << "2", "5" >>, 70, 250, ENRE) >> >>
  ELSE << ESKS, << Runway(<< "1", "5" >>, << "3", "3" >>, 150, 330, ESKS) >> >>

Catalogs ==
  { << CatalogEntry(ENGM), CatalogEntry(ENZV), CatalogEntry(ENBR), CatalogEntry(ENRE), CatalogEntry(ESKS) >>,
    << CatalogEntry(ESKS), CatalogEntry(ENZV) >>,
    << CatalogEntry(ENGM) >> }

LineEngmVrb == << "E", "N", "G", "M", " ", "1", "2", "1", "3", "5", "0", "Z", " ", "V", "R", "B", "0", "2", "K", "T" >>
LineEngmFzfg == << "E", "N", "G", "M", " ", "1", "2", "1", "3", "5", "0", "Z", " ", "0", "2", "0", "0", "5", "K", "T", " ", "0", "3", "0", "0", " ", "F", "Z", "F", "G" >>
LineEngmDir == << "E", "N", "G", "M", " ", "1", "2", "1", "3", "5", "0", "Z", " ", "1", "9", "0", "1", "0", "K", "T" >>
LineEnzvA == << "E", "N", "Z", "V", " ", "1", "2", "1", "3", "5", "0", "Z", " ", "2", "0", "0", "2", "0", "K", "T" >>
LineEnzvB == << "E", "N", "Z", "V", " ", "1", "2", "1", "3", "5", "0", "Z", " ", "2", "3", "0", "1", "0", "K", "T" >>
LineEnbr == << "E", "N", "B", "R", " ", "1", "2", "1", "3", "5", "0", "Z", " ", "1", "7", "0", "1", "0", "K", "T" >>
LineEnbrBad == << "E", "N", "B", "R", " ", "1", "2", "1", "3", "5", "0", "Z", " ", "/", "/", "/", "/", "/", "K", "T" >>
LineEsksVrb == << "E", "S", "K", "S", " ", "1", "2", "1", "3", "5", "0", "Z", " ", "V", "R", "B", "0", "3", "K", "T" >>
LineEsksDir == << "E", "S", "K", "S", " ", "1", "2", "1", "3", "5", "0", "Z", " ", "3", "3", "0", "1", "2", "K", "T" >>
StoreHub == << "E", "N", "G", "M", "_", "A", "R", "R", ":", "0", "1", "L", "\n", "E", "N", "G", "M", "_", "D", "E", "P", ":", "0", "1", "L", "\n", "A", "C", "T", "I", "V", "E", "_", "R", "U", "N", "W", "A", "Y", ":", "E", "N", "Z", "V", ":", "3", "6", ":", "1", "\n", "A", "C", "T", "I", "V", "E", "_", "R", "U", "N", "W", "A", "Y", ":", "E", "N", "Z", "V", ":", "3", "6", ":", "0", "\n" >>
StoreBare == << "A", "C", "T", "I", "V", "E", "_", "R", "U", "N", "W", "A", "Y", ":", "E", "N", "B", "R", ":", "3", "5", ":", "1", "\n" >>

\* the batch text: the reports that are present, one per line
BatchText(ls) == Join(NL, ls) \o NL

Optional(S) == { << >> } \cup { << x >> : x \in S }

Batches ==
  { Response(TRUE, 200, << >>), Response(FALSE, 503, << >>) } \cup
  { Response(FALSE, 200, BatchText(a \o b \o blank \o c)) :
      a \in Optional({ LineEngmVrb, LineEngmFzfg, LineEngmDir }),
      b \in Optional({ LineEnzvA, LineEnzvB }),
      blank \in Optional({ << >> }),
      c \in Optional({ LineEnbr, LineEnbrBad }) }

EsksResponses ==
  { Response(TRUE, 200, << >>), Response(FALSE, 200, LineEsksVrb \o NL), Response(FALSE, 200, LineEsksDir) }

Feeds == { [batch |-> b, esks |-> e] : b \in Batches, e \in EsksResponses }

MaxFiles == 2

MaxInvalid == 1

StoreTexts == { StoreHub, StoreBare }

RECURSIVE SeqsUpTo(_, _)
SeqsUpTo(S, n) ==
  IF n = 0 THEN { << >> }
  ELSE LET shorter == SeqsUpTo(S, n - 1)
       IN  shorter \cup { Append(s, x) : s \in { t \in shorter : Len(t) = n - 1 }, x \in S }

----------------------------------------------------------------------------
(* One pass of main() *)

Init ==
  /\ runways \in Catalogs
  /\ feed \in Feeds
  /\ files \in SeqsUpTo(StoreTexts, MaxFiles)
  /\ all_metars = NoMetars
  /\ pc = "start"
  /\ idx = 0
  /\ pending = None
  /\ invalid = 0
  /\ log = << >>
  /\ sel_in = << >>
  /\ sel_out = NoSelection
  /\ last = << >>
  /\ fp = NoRounding

\* choice: the operator's accepted answer, "" when the operator was not asked
Entry(airport, outcome, wind_data, selection, choice) ==
  [airport |-> airport, outcome |-> outcome, wind_data |-> wind_data, selection |-> selection,
   choice |-> choice]

\* lines 334-347: read the catalog, fetch the reports, list the store files
Start ==
  /\ pc = "start"
  /\ all_metars' = get_all_metars(feed)
  /\ pc' = IF files = << >> THEN "done" ELSE "loop"
  /\ idx' = 1
  /\ UNCHANGED << runways, feed, files, pending, invalid, log, sel_in, sel_out, last, fp >>

AtAirport == pc = "loop" /\ idx <= Len(runways)

\* lines 352-353
SkipIgnored ==
  /\ AtAirport
  /\ runways[idx][1] \in IGNORED_AIRPORTS
  /\ idx' = idx + 1
  /\ log' = Append(log, Entry(runways[idx][1], "ignored", None, NoSelection, ""))
  /\ UNCHANGED << runways, feed, all_metars, files, pc, pending, invalid, sel_in, sel_out, last, fp >>

\* lines 356-358, 373-374: no report for the airport
NoWindData ==
  /\ AtAirport
  /\ runways[idx][1] \notin IGNORED_AIRPORTS
  /\ Get(all_metars, runways[idx][1]) = None
  /\ idx' = idx + 1
  /\ log' = Append(log, Entry(runways[idx][1], "could_not_fetch", None, NoSelection, ""))
  /\ UNCHANGED << runways, feed, all_metars, files, pc, pending, invalid, sel_in, sel_out, last, fp >>

\* lines 358-372 when select_runway does not ask the operator
Process ==
  /\ AtAirport
  /\ runways[idx][1] \notin IGNORED_AIRPORTS
  /\ LET airport == runways[idx][1]
         wind_data == Get(all_metars, airport)
         s == select_runway(airport, runways[idx][2], wind_data, "1")
     IN  /\ wind_data # None
         /\ ~AsksOperator(airport, wind_data)
         /\ files' = [k \in 1..Len(files) |-> Commit(files[k], airport, s)]
         /\ log' = Append(log, Entry(airport, "selected", wind_data, s, ""))
  /\ idx' = idx + 1
  /\ UNCHANGED << runways, feed, all_metars, pc, pending, invalid, sel_in, sel_out, last, fp >>

\* lines 246-249, 166-176: select_runway reaches get_engm_config, which waits on input()
AskOperator ==
  /\ AtAirport
  /\ runways[idx][1] \notin IGNORED_AIRPORTS
  /\ AsksOperator(runways[idx][1], Get(all_metars, runways[idx][1]))
  /\ pc' = "prompt"
  /\ pending' = Get(all_metars, runways[idx][1])
  /\ invalid' = 0
  /\ UNCHANGED << runways, feed, all_metars, files, idx, log, sel_in, sel_out, last, fp >>

\* lines 176-177, 192: an answer outside 1-6 repeats the prompt
InvalidAnswer ==
  /\ pc = "prompt"
  /\ invalid < MaxInvalid
  /\ \E choice \in { "0", "7", "19" } : choice \notin ValidChoices
  /\ invalid' = invalid + 1
  /\ UNCHANGED << runways, feed, all_metars, files, pc, idx, pending, log, sel_in, sel_out, last, fp >>

\* lines 177-189, 250-252, 363-372: an answer 1-6 ends the prompt and the selection is committed
Answer ==
  /\ pc = "prompt"
  /\ \E choice \in ValidChoices :
       LET airport == runways[idx][1]
           s == select_runway(airport, runways[idx][2], pending, choice)
       IN  /\ files' = [k \in 1..Len(files) |-> Commit(files[k], airport, s)]
           /\ log' = Append(log, Entry(airport, "configured", pending, s, choice))
  /\ pc' = "loop"
  /\ idx' = idx + 1
  /\ pending' = None
  /\ invalid' = 0
  /\ UNCHANGED << runways, feed, all_metars, sel_in, sel_out, last, fp >>

\* lines 376-382
Finish ==
  /\ pc = "loop"
  /\ idx > Len(runways)
  /\ pc' = "done"
  /\ UNCHANGED << runways, feed, all_metars, files, idx, pending, invalid, log, sel_in, sel_out, last, fp >>

Next == Start \/ SkipIgnored \/ NoWindData \/ Process \/ AskOperator \/ InvalidAnswer \/ Answer \/ Finish

Spec == Init /\ [][Next]_vars

----------------------------------------------------------------------------
(* select_runway on its own: arguments drawn from bounded sets, then the call *)

MaxRunways == 2

WindCalm == << "0", "0", "0", "0", "0", "K", "T" >>
WindSouth == << "2", "0", "0", "2", "0", "K", "T" >>
WindStrong == << "2", "1", "0", "4", "6", "K", "T" >>
WindGale == << "2", "3", "0", "6", "0", "K", "T" >>
WindWest == << "2", "7", "0", "4", "0", "K", "T" >>
WindLight == << "2", "3", "0", "1", "0", "K", "T" >>
WindVrb == << "V", "R", "B", "0", "3", "K", "T" >>
WindFog == << "0", "9", "0", "3", "0", "K", "T", " ", "F", "Z", "F", "G" >>

WindCross == << "1", "9", "0", "2", "0", "K", "T" >>

WindReports ==
  { WindCalm, WindSouth, WindStrong, WindGale, WindWest, WindLight, WindCross, WindVrb, WindFog }

SelectAirports == { ENGM, ENZV, ESKS }

\* runways of a catalog; the two headings of a runway need not be exact reciprocals
RunwayPool(airport) ==
  { Runway(<< "1", "8" >>, << "3", "6" >>, 177, 357, airport),
    Runway(<< "1", "0" >>, << "2", "8" >>, 100, 280, airport),
    Runway(<< "1", "9", "R" >>, << "0", "1", "L" >>, 194, 14, airport),
    Runway(<< "3", "5" >>, << "1", "7" >>, 358, 177, airport),
    Runway(<< "1", "6", "C" >>, << "3", "4", "C" >>, 177, 359, airport) }

SelectInputs ==
  { [airport |-> a, runway_data |-> rd, wind_data |-> w, choice |-> c] :
      a \in SelectAirports,
      rd \in UNION { SeqsUpTo(RunwayPool(a), MaxRunways) \ { << >> } : a \in SelectAirports },
      w \in { None } \cup { parse_metar(t) : t \in WindReports },
      c \in ValidChoices }

Headings(runway_data) ==
  { runway_data[k].hdg1 : k \in 1..Len(runway_data) } \cup { runway_data[k].hdg2 : k \in 1..Len(runway_data) }

InitSelect ==
  /\ sel_in \in { i \in SelectInputs :
                    /\ \A k \in 1..Len(i.runway_data) : i.runway_data[k].airport = i.airport
                    /\ (i.choice # "1" => AsksOperator(i.airport, i.wind_data)) }
  /\ fp \in [Headings(sel_in.runway_data) -> { 0, 1 }]
  /\ sel_out = NoSelection
  /\ pc = "call"
  /\ runways = << >>
  /\ feed = << >>
  /\ all_metars = NoMetars
  /\ files = << >>
  /\ idx = 0
  /\ pending = None
  /\ invalid = 0
  /\ log = << >>
  /\ last = << >>

CallSelect ==
  /\ pc = "call"
  /\ sel_out' = select_runway(sel_in.airport, sel_in.runway_data, sel_in.wind_data, sel_in.choice)
  /\ pc' = "returned"
  /\ UNCHANGED << runways, feed, all_metars, files, idx, pending, invalid, log, sel_in, last, fp >>

NextSelect == CallSelect

SpecSelect == InitSelect /\ [][NextSelect]_vars

----------------------------------------------------------------------------
(* One store file under a sequence of updates *)

MaxUpdates == 3

StoreEmpty == << >>
StoreOnlyArr == << "E", "N", "G", "M", "_", "A", "R", "R", ":", "0", "1", "L", "\n" >>
StoreSeveralArr == << "E", "N", "G", "M", "_", "A", "R", "R", ":", "0", "1", "L", "\n", "E", "N", "G", "M", "_", "A", "R", "R", ":", "0", "1", "R", "\n", "E", "N", "G", "M", "_", "D", "E", "P", ":", "0", "1", "L", "\n" >>
StoreStale == << "A", "C", "T", "I", "V", "E", "_", "R", "U", "N", "W", "A", "Y", ":", "E", "N", "Z", "V", ":", "3", "6", ":", "1", "\n", "A", "C", "T", "I", "V", "E", "_", "R", "U", "N", "W", "A", "Y", ":", "E", "N", "Z", "V", ":", "1", "8", ":", "0", "\n", "A", "C", "T", "I", "V", "E", "_", "R", "U", "N", "W", "A", "Y", ":", "E", "N", "Z", "V", ":", "1", "0", ":", "1", "\n" >>
StoreNoNewline == << "A", "C", "T", "I", "V", "E", "_", "R", "U", "N", "W", "A", "Y", ":", "E", "N", "B", "R", ":", "3", "5", ":", "0" >>
StoreHubNoNewline == << "E", "N", "G", "M", "_", "A", "R", "R", ":", "0", "1", "L", "\n", "E", "N", "G", "M", "_", "D", "E", "P", ":", "0", "1", "L" >>

StoreInitials ==
  { StoreEmpty, StoreHub, StoreBare, StoreOnlyArr, StoreSeveralArr, StoreStale,
    StoreNoNewline, StoreHubNoNewline }

InitStore ==
  /\ files \in { << c >> : c \in StoreInitials }
  /\ last = [rwy |-> << >>, hub |-> << >>]
  /\ fp = NoRounding
  /\ pc = "store"
  /\ idx = 0
  /\ runways = << >>
  /\ feed = << >>
  /\ all_metars = NoMetars
  /\ pending = None
  /\ invalid = 0
  /\ log = << >>
  /\ sel_in = << >>
  /\ sel_out = NoSelection

\* a call of update_rwy_file; last.rwy remembers the designator of the latest call per airport
StoreUpdateRwy ==
  /\ pc = "store"
  /\ idx < MaxUpdates
  /\ \E airport \in { ENZV, ENBR }, runway \in { << "1", "8" >>, << "3", "6" >> } :
       /\ files' = << update_rwy_file(files[1], airport, runway) >>
       /\ last' = [last EXCEPT !.rwy = Put(last.rwy, airport, runway)]
  /\ idx' = idx + 1
  /\ UNCHANGED << runways, feed, all_metars, pc, pending, invalid, log, sel_in, sel_out, fp >>

\* a call of update_engm_runways with a configuration of get_engm_config;
\* last.hub remembers the latest configuration
StoreUpdateEngm ==
  /\ pc = "store"
  /\ idx < MaxUpdates
  /\ \E choice \in ValidChoices :
       LET cfg == get_engm_config(choice)
       IN  /\ files' = << update_engm_runways(files[1], cfg[1], cfg[2]) >>
           /\ last' = [last EXCEPT !.hub = << cfg >>]
  /\ idx' = idx + 1
  /\ UNCHANGED << runways, feed, all_metars, pc, pending, invalid, log, sel_in, sel_out, fp >>

NextStore == StoreUpdateRwy \/ StoreUpdateEngm

SpecStore == InitStore /\ [][NextStore]_vars

----------------------------------------------------------------------------
(* Properties of select_runway (SpecSelect) *)

\* the headings of a runway list in encounter order: hdg1 then hdg2 of each runway
HeadingSeq(runway_data) ==
  [k \in 1..(2 * Len(runway_data)) |->
     LET runway == runway_data[(k + 1) \div 2]
     IN  IF k % 2 = 1 THEN [rwy |-> runway.rwy1, hdg |-> runway.hdg1]
         ELSE [rwy |-> runway.rwy2, hdg |-> runway.hdg2]]

InHeadwind(k) ==
  calculate_wind_components(HeadingSeq(sel_in.runway_data)[k].hdg,
                            sel_in.wind_data.direction, sel_in.wind_data.speed)[1]

InCrosswind(k) ==
  calculate_wind_components(HeadingSeq(sel_in.runway_data)[k].hdg,
                            sel_in.wind_data.direction, sel_in.wind_data.speed)[2]

InHeadings == 1..(2 * Len(sel_in.runway_data))

InEligible == { k \in InHeadings : InCrosswind(k) <= 25 * Scale }

Returned == pc = "returned"

Directional == sel_in.wind_data.kind = "int"

\* C3 as stated: with a Directional observation and at least one heading of crosswind <= 25,
\* select_runway returns the designator of the eligible heading of greatest headwind,
\* the first such heading in encounter order when several share it.
C3_AsStated ==
  (Returned /\ Directional /\ InEligible # { })
    => /\ ~sel_out.is_list
       /\ LET best == CHOOSE k \in InEligible :
                        /\ \A j \in InEligible : InHeadwind(j) <= InHeadwind(k)
                        /\ \A j \in InEligible : j < k => InHeadwind(j) < InHeadwind(k)
          IN  sel_out.selected = HeadingSeq(sel_in.runway_data)[best].rwy

\* the heading a runway puts forward: hdg1 when its headwind is strictly the greater, else hdg2
Candidate(i) == IF InHeadwind(2 * i - 1) > InHeadwind(2 * i) THEN 2 * i - 1 ELSE 2 * i

EligibleCandidates ==
  { i \in 1..Len(sel_in.runway_data) : InCrosswind(Candidate(i)) <= 25 * Scale }

OperatorAsked == sel_in.airport = ENGM /\ Contains(sel_in.wind_data.raw_metar, FZFG)

\* C3 amended: with a Directional observation for which the operator is not asked, each
\* runway puts forward its heading of strictly greater headwind (hdg2 when the two are
\* equal); when at least one of these has crosswind <= 25, select_runway returns the
\* designator of the one of greatest headwind among those of crosswind <= 25, that of the
\* earliest runway when several share it, and the rationale is not shown.
C3_BestCandidate ==
  (Returned /\ Directional /\ ~OperatorAsked /\ EligibleCandidates # { })
    => /\ ~sel_out.is_list
       /\ LET best == CHOOSE i \in EligibleCandidates :
                        /\ \A j \in EligibleCandidates :
                             InHeadwind(Candidate(j)) <= InHeadwind(Candidate(i))
                        /\ \A j \in EligibleCandidates :
                             j < i => InHeadwind(Candidate(j)) < InHeadwind(Candidate(i))
          IN  sel_out.selected = HeadingSeq(sel_in.runway_data)[Candidate(best)].rwy
       /\ ~sel_out.should_print

\* C3 witness: two runways put forward eligible headings of different headwind and the
\* second runway's heading is returned
C3_Witness ==
  /\ Returned /\ Directional /\ ~OperatorAsked
  /\ Len(sel_in.runway_data) = 2
  /\ EligibleCandidates = { 1, 2 }
  /\ InHeadwind(Candidate(2)) > InHeadwind(Candidate(1))
  /\ ~sel_out.is_list
  /\ sel_out.selected = HeadingSeq(sel_in.runway_data)[Candidate(2)].rwy
  /\ sel_out.selected # HeadingSeq(sel_in.runway_data)[Candidate(1)].rwy

AllOverLimit == \A k \in InHeadings : InCrosswind(k) > 25 * Scale

LeastCrosswindReturned ==
  /\ ~sel_out.is_list
  /\ \E k \in InHeadings :
       /\ \A j \in InHeadings : InCrosswind(k) <= InCrosswind(j)
       /\ sel_out.selected = HeadingSeq(sel_in.runway_data)[k].rwy
  /\ sel_out.should_print

\* C5 as stated: with a Directional observation whose crosswind exceeds 25 on every heading,
\* select_runway returns the designator of a heading of smallest crosswind, rationale shown.
C5_AsStated == (Returned /\ Directional /\ AllOverLimit) => LeastCrosswindReturned

\* C5 amended: the same, unless the airport is ENGM and the report text holds FZFG
\* (the operator's configuration is returned then).
C5_LeastCrosswindFallback ==
  (Returned /\ Directional /\ AllOverLimit
     /\ ~OperatorAsked)
    => LeastCrosswindReturned

\* C5 witness: the fallback chose a heading of the second runway of the list
C5_Witness ==
  /\ Returned /\ Directional /\ AllOverLimit
  /\ ~sel_out.is_list
  /\ Len(sel_in.runway_data) = 2
  /\ sel_out.selected = sel_in.runway_data[2].rwy2
  /\ sel_out.selected # sel_in.runway_data[1].rwy1
  /\ sel_out.selected # sel_in.runway_data[1].rwy2

InDesignators ==
  { sel_in.runway_data[k].rwy1 : k \in 1..Len(sel_in.runway_data) }
    \cup { sel_in.runway_data[k].rwy2 : k \in 1..Len(sel_in.runway_data) }

\* the integer made of the digits of a designator
DigitsValue(d) == ParseInt(SelectSeq(d, IsDigit))

VariableNoPreference ==
  /\ Returned
  /\ sel_in.wind_data.kind = "VRB"
  /\ sel_in.airport # ENGM
  /\ \A k \in 1..Len(PREFERRED_RUNWAYS) : PREFERRED_RUNWAYS[k][1] # sel_in.airport

\* C6: with a Variable observation at an airport other than ENGM with no preferred runway,
\* select_runway returns a designator of the airport whose numeric value is the least
\* of all designators of all runways, rationale shown.
C6_LowestDesignator ==
  VariableNoPreference
    => /\ ~sel_out.is_list
       /\ sel_out.selected \in InDesignators
       /\ \A d \in InDesignators : DigitsValue(sel_out.selected) <= DigitsValue(d)
       /\ sel_out.should_print

\* C6 witness: the lowest designator is the second designator of the second runway
\* and carries a letter suffix
C6_Witness ==
  /\ VariableNoPreference
  /\ Len(sel_in.runway_data) = 2
  /\ sel_out.selected = sel_in.runway_data[2].rwy2
  /\ sel_out.selected # sel_in.runway_data[1].rwy1
  /\ SelectSeq(sel_out.selected, IsDigit) # sel_out.selected

----------------------------------------------------------------------------
(* Properties of one pass of main() (Spec) *)

Lines(content) == ReadLines(content)

RecordsOf(content, prefix) == SelectSeq(Lines(content), LAMBDA line : StartsWith(line, prefix))

ActiveRecord(airport, runway, flag) ==
  ACTIVE_RUNWAY \o Colon \o airport \o Colon \o runway \o Colon \o << flag >> \o NL

\* the no-observation default: the preferred runway, else the first runway's first designator
DefaultRunway(airport, runway_data) ==
  IF \E k \in 1..Len(PREFERRED_RUNWAYS) : PREFERRED_RUNWAYS[k][1] = airport
  THEN PREFERRED_RUNWAYS[CHOOSE k \in 1..Len(PREFERRED_RUNWAYS) : PREFERRED_RUNWAYS[k][1] = airport][2]
  ELSE runway_data[1].rwy1

\* C1: when a pass with at least one store file has ended, every catalog airport that is not
\* ignored has had a selection made and committed to every store file; an airport without an
\* observation has the no-observation default in every store file.
C1_EveryAirportCommitted ==
  (pc = "done" /\ files # << >>)
    => \A k \in 1..Len(runways) :
         runways[k][1] \notin IGNORED_AIRPORTS
           => \E j \in 1..Len(log) :
                /\ log[j].airport = runways[k][1]
                /\ log[j].outcome \in { "selected", "configured" }
                /\ (Get(all_metars, runways[k][1]) = None
                      => \A f \in 1..Len(files) :
                           \E i \in 1..Len(Lines(files[f])) :
                             Lines(files[f])[i] =
                               ActiveRecord(runways[k][1], DefaultRunway(runways[k][1], runways[k][2]), "1"))

\* what each operator choice is to leave in the store: << ENGM_ARR value, ENGM_DEP value >>
HubRecords(choice) ==
  IF choice = "1" THEN << << "1", "9", "L", ",", "1", "9", "R" >>, << "1", "9", "L", ",", "1", "9", "R" >> >>
  ELSE IF choice = "2" THEN << << "0", "1", "L", ",", "0", "1", "R" >>, << "0", "1", "L", ",", "0", "1", "R" >> >>
  ELSE IF choice = "3" THEN << << "1", "9", "R" >>, << "1", "9", "L" >> >>
  ELSE IF choice = "4" THEN << << "0", "1", "R" >>, << "0", "1", "L" >> >>
  ELSE IF choice = "5" THEN << << "1", "9", "R" >>, << "1", "9", "R" >> >>
  ELSE << << "0", "1", "L" >>, << "0", "1", "L" >> >>

\* C2: once the operator's choice for ENGM is committed, every store file that holds one
\* ENGM_ARR and one ENGM_DEP line holds the records of the chosen configuration's mode
\* (Segregated: the R runway for arrivals, the L runway for departures).
C2_HubRecordsMatchMode ==
  \A j \in 1..Len(log) :
    log[j].outcome = "configured"
      => \A f \in 1..Len(files) :
           (Len(RecordsOf(files[f], ENGM_ARR)) = 1 /\ Len(RecordsOf(files[f], ENGM_DEP)) = 1)
             => /\ RecordsOf(files[f], ENGM_ARR)[1] = ENGM_ARR \o Colon \o HubRecords(log[j].choice)[1] \o NL
                /\ RecordsOf(files[f], ENGM_DEP)[1] = ENGM_DEP \o Colon \o HubRecords(log[j].choice)[2] \o NL

\* C4: the selection a pass makes for ENZV from a Directional observation is the result of
\* the 15-knot rule of select_runway_enzv.
C4_EnzvRule ==
  \A j \in 1..Len(log) :
    (log[j].airport = ENZV /\ log[j].outcome = "selected" /\ log[j].wind_data.kind = "int")
      => log[j].selection.selected = select_runway_enzv(log[j].wind_data)

\* the lines get_all_metars reads from the batch
BatchLines == SplitOn(Strip(feed.batch.text), "\n")

WellFormed(line) == SplitWs(line) # << >> /\ parse_metar(line) # None

\* C9: after a successful fetch of the batch, every airport whose line is well-formed has
\* its parsed observation in the result of get_all_metars, whatever the other lines are.
C9_MalformedLineIsLocal ==
  (pc # "start" /\ ~feed.batch.raises /\ feed.batch.status_code = 200)
    => \A k \in 1..Len(BatchLines) :
         WellFormed(BatchLines[k])
           => Get(all_metars, SplitWs(BatchLines[k])[1]) = parse_metar(BatchLines[k])

SixConfigurations ==
  { << << << "1", "9", "L" >>, << "1", "9", "R" >> >>, MPO >>,
    << << << "0", "1", "L" >>, << "0", "1", "R" >> >>, MPO >>,
    << << << "1", "9", "L" >>, << "1", "9", "R" >> >>, SPO >>,
    << << << "0", "1", "L" >>, << "0", "1", "R" >> >>, SPO >>,
    << << << "1", "9", "R" >> >>, SRO >>,
    << << << "0", "1", "L" >> >>, SRO >> }

HubTrigger(airport, wind_data) ==
  /\ airport = ENGM
  /\ wind_data.kind # "None"
  /\ (wind_data.kind = "VRB" \/ Contains(wind_data.raw_metar, FZFG))

\* C10: the operator is asked exactly when the airport is ENGM, an observation is present and
\* it is Variable or its report text holds FZFG; the selection is then one of the six fixed
\* configurations, rationale shown, and no designator of the variable or directional rule;
\* for any other airport, and for ENGM without an observation, the operator is not asked.
C10_HubOverridePrecedence ==
  /\ pc = "prompt" => HubTrigger(runways[idx][1], Get(all_metars, runways[idx][1]))
  /\ \A j \in 1..Len(log) :
       /\ log[j].outcome = "configured" <=> HubTrigger(log[j].airport, log[j].wind_data)
       /\ log[j].outcome = "configured"
            => /\ log[j].selection.is_list
               /\ log[j].selection.should_print
               /\ \E c \in SixConfigurations :
                    /\ log[j].selection.selected = c[1]
                    /\ log[j].selection.message
                         = MsgUsing \o c[2] \o MsgModeWithRunways \o Join(CommaSpace, c[1])
       /\ log[j].outcome = "selected" => ~log[j].selection.is_list

\* C10 witness: the operator was asked for ENGM on a Directional report holding FZFG, and an
\* airport with a Variable report was handled without asking
C10_Witness ==
  /\ pc = "done"
  /\ \E j \in 1..Len(log) :
       log[j].outcome = "configured" /\ log[j].wind_data.kind = "int" /\ log[j].choice = "4"
  /\ \E j \in 1..Len(log) :
       log[j].outcome = "selected" /\ log[j].wind_data.kind = "VRB"

----------------------------------------------------------------------------
(* Properties of the store operations (SpecStore) *)

\* C7: after any sequence of update_rwy_file calls, the file holds for every updated airport
\* exactly two ACTIVE_RUNWAY records, flag 1 and flag 0, with the designator of the latest
\* update, and none with an older designator.
C7_TwoRecordsPerAirport ==
  \A airport \in DOMAIN last.rwy :
    LET records == RecordsOf(files[1], ACTIVE_RUNWAY \o Colon \o airport \o Colon)
    IN  /\ Len(records) = 2
        /\ { records[1], records[2] }
             = { ActiveRecord(airport, last.rwy[airport], "1"), ActiveRecord(airport, last.rwy[airport], "0") }

\* the records a configuration is to leave: << ENGM_ARR value, ENGM_DEP value >>
ConfigRecords(cfg) ==
  IF cfg[2] = SPO
  THEN IF cfg[1][1] = << "1", "9", "L" >> THEN << << "1", "9", "R" >>, << "1", "9", "L" >> >>
       ELSE << << "0", "1", "R" >>, << "0", "1", "L" >> >>
  ELSE IF cfg[2] = MPO THEN << cfg[1][1] \o << "," >> \o cfg[1][2], cfg[1][1] \o << "," >> \o cfg[1][2] >>
  ELSE << cfg[1][1], cfg[1][1] >>

\* C8: after update_engm_runways has committed a configuration, whatever the file held
\* before, it holds exactly one ENGM_ARR and one ENGM_DEP record, both of the latest
\* configuration.
C8_OneHubRecordEach ==
  last.hub # << >>
    => /\ RecordsOf(files[1], ENGM_ARR) = << ENGM_ARR \o Colon \o ConfigRecords(last.hub[1])[1] \o NL >>
       /\ RecordsOf(files[1], ENGM_DEP) = << ENGM_DEP \o Colon \o ConfigRecords(last.hub[1])[2] \o NL >>

====
